---- MODULE Spec2Model ----
(***************************************************************************)
(* SubtitleX: the batched subtitle translation / correction pipelines.    *)
(*                                                                         *)
(* Four entry points of the repository are modelled, one per value of     *)
(* prog:                                                                   *)
(*   "bilingual"  bilingual_srt_translator.py (and its Anthropic twin     *)
(*                ultra_bilingual_srt_translator.py, same control flow)   *)
(*   "batch"      [batch]test_bilingual_srt_translator.py                 *)
(*   "structured" test_bilingual_srt_translator.py                        *)
(*   "corrector"  subtitle_corrector.py                                   *)
(*                                                                         *)
(* Subtitle documents of the regex based variants are sequences of lines  *)
(* (the text is the lines joined by "\n"); the structured variant, whose  *)
(* chunker counts characters, works on sequences of characters.  A run is *)
(* cut into steps at its remote calls.                                     *)
(***************************************************************************)
EXTENDS Integers, Sequences, FiniteSets, TLC

VARIABLES
    prog,                   \* which entry point this run executes
    pc,                     \* control location of the run
    content,                \* the uploaded document
    subtitles,              \* parsed records
    batch_size,             \* BATCH_SIZE / batch_size / max_chunk_size of the run
    i,                      \* index of the batch / chunk loop
    attempt,                \* failed attempts of the request in progress
    translated_subtitles,   \* accumulating result list (corrected_subtitles in the corrector)
    session,                \* st.session_state.translated_subtitles: <<>> is None, <<v>> a value
    progress,               \* values passed to the progress callback, in call order
    error,                  \* "none", or the exception that ended the run
    origin,                 \* ghost: start index of the batch that produced each result
    outcomes,               \* ghost: "ok" / "labelled" / "failed" for each finished batch, in order
    last_request,           \* ghost: how the latest translation request ended
    delivered,              \* what the caller can take away: <<>> nothing, <<doc>> a document
    j,                      \* batch variant: index of the record inside the batch
    translation_lines,      \* batch variant: lines of the current batch's translation
    cache,                  \* batch variant: batch text -> translation
    text_chunks,            \* structured variant: the chunks of the document
    translated_text,        \* structured variant: the text put together so far
    futures,                \* corrector: state of each submitted correct_subtitle call
    completed,              \* corrector: finished futures not yet taken by as_completed
    changes,                \* corrector: the (index, original, corrected) list
    slept,                  \* arguments of the time.sleep calls made inside the request in progress
    calls                   \* batch variant: attempts of translate_subtitle made so far

\* Variables only one entry point uses.
batchOnly == << j, translation_lines, cache, calls >>
structuredOnly == << text_chunks, translated_text >>
correctorOnly == << futures, completed, changes >>

vars == << prog, pc, content, subtitles, batch_size, i, attempt,
           translated_subtitles, session, progress, error, origin, outcomes,
           last_request, delivered, slept, batchOnly, structuredOnly,
           correctorOnly >>

(***************************************************************************)
(* Bounds of the model.                                                    *)
(***************************************************************************)
MaxRecords == 3
MaxBatchSize == 2
MaxTextLen == 6
MaxChunkSize == 3
MaxPoolRecords == 6

(***************************************************************************)
(* Program constants.                                                      *)
(***************************************************************************)
max_retries == 3
stop_after_attempt == 3
MAX_WORKERS == 5
default_max_chunk_size == 4000

(***************************************************************************)
(* Generic helpers.                                                        *)
(***************************************************************************)
Min(a, b) == IF a <= b THEN a ELSE b

Range(s) == { s[k] : k \in DOMAIN s }

RECURSIVE Flatten(_)
Flatten(ss) == IF ss = << >> THEN << >> ELSE Head(ss) \o Flatten(Tail(ss))

\* All sequences over S of length 0..n.
SeqsUpTo(S, n) == UNION { [1..k -> S] : k \in 0..n }

\* A progress value is the fraction <<numerator, denominator>>.
Frac(n, d) == << n, d >>
FracLeq(a, b) == a[1] * b[2] <= b[1] * a[2]
FracMin1(a) == IF a[1] > a[2] THEN << 1, 1 >> ELSE a

\* How a translation request ended.
NoRequest == [exhausted |-> FALSE, result |-> "none"]
Ended(exhausted, result) == [exhausted |-> exhausted, result |-> result]

(***************************************************************************)
(* Lines of a subtitle document.                                           *)
(***************************************************************************)
Digits == { "1", "2", "3", "4", "5", "6", "7", "8" }
Timestamps == { "T1", "T2" }
Blank == ""
IsDigits(l) == l \in Digits
IsTimestamp(l) == l \in Timestamps
IsBlank(l) == l = Blank

\* str.strip() on a text given as lines: leading and trailing blank lines go.
RECURSIVE LStripLines(_)
LStripLines(ls) ==
    IF ls # << >> /\ IsBlank(Head(ls)) THEN LStripLines(Tail(ls)) ELSE ls

RECURSIVE RStripLines(_)
RStripLines(ls) ==
    IF ls # << >> /\ IsBlank(ls[Len(ls)])
    THEN RStripLines(SubSeq(ls, 1, Len(ls) - 1)) ELSE ls

\* A text always has at least one line: the empty text is the single line "".
StripLines(ls) ==
    LET r == RStripLines(LStripLines(ls)) IN IF r = << >> THEN << Blank >> ELSE r

\* Python truthiness of a text.
Truthy(text) == text # << Blank >>

\* Blocks written one after the other with one blank line between them.
RECURSIVE JoinBlocks(_)
JoinBlocks(bs) ==
    IF bs = << >> THEN << >>
    ELSE IF Len(bs) = 1 THEN Head(bs)
    ELSE Head(bs) \o << Blank >> \o JoinBlocks(Tail(bs))

(***************************************************************************)
(* Documents the user may upload.  Cues carry one of two texts; a document *)
(* repeats one cue or alternates the two.  Two documents hold a block of   *)
(* plain text: alone, and in front of a cue.                               *)
(***************************************************************************)
Cue == << "1", "T1", "x" >>
CueY == << "2", "T2", "y" >>
Garbage == << "x" >>

Cues(n, alternate) ==
    [k \in 1..n |-> IF alternate /\ k % 2 = 0 THEN CueY ELSE Cue]

Docs(alts) ==
    { JoinBlocks(Cues(n, alt)) : n \in 1..MaxRecords, alt \in alts }
    \cup { Garbage, JoinBlocks(<< Garbage, Cue >>) }

(***************************************************************************)
(* bilingual_srt_translator.py: SRTProcessor.parse_srt.                    *)
(* The pattern is  (\d+)\n(ts)\n((?:(?!\n\d+\n).)+)  with DOTALL: the text *)
(* group runs from the line after the timestamp up to (not including) the  *)
(* newline in front of the next line of digits that is itself followed by  *)
(* a newline, and must hold at least one character.                        *)
(***************************************************************************)
TextEnd(lines, p) ==
    LET stops == { q \in (p + 3)..(Len(lines) - 1) : IsDigits(lines[q]) }
    IN  IF stops = {} THEN Len(lines) + 1
        ELSE CHOOSE q \in stops : \A r \in stops : q <= r

MatchAt(lines, p) ==
    /\ p + 2 <= Len(lines)
    /\ IsDigits(lines[p])
    /\ IsTimestamp(lines[p + 1])
    /\ SubSeq(lines, p + 2, TextEnd(lines, p) - 1) # << Blank >>

RECURSIVE FindAll(_, _, _)
FindAll(lines, p, acc) ==
    IF p > Len(lines) THEN acc
    ELSE IF MatchAt(lines, p)
         THEN LET q == TextEnd(lines, p)
              IN  FindAll(lines, q,
                          Append(acc, << lines[p], lines[p + 1],
                                         SubSeq(lines, p + 2, q - 1) >>))
         ELSE FindAll(lines, p + 1, acc)

\* [raised |-> TRUE] stands for the ValueError of line 148.
parse_srt(doc) ==
    LET matches == FindAll(StripLines(doc), 1, << >>)
    IN  IF matches = << >>
        THEN [raised |-> TRUE, value |-> << >>]
        ELSE [raised |-> FALSE, value |-> matches]

(***************************************************************************)
(* The model's answer to one translate_batch call, line by line.  A line   *)
(* is classified by the prefix _parse_translation looks for; v is what is  *)
(* left of the line after the prefix is removed and the rest stripped.     *)
(***************************************************************************)
target_lang1 == "L1"
target_lang2 == "L2"
TranslationError == "[Translation Error]"

RespLine == { [k |-> "Original", v |-> "a"],
              [k |-> target_lang1, v |-> "b"],
              [k |-> target_lang2, v |-> "c"],
              [k |-> "other", v |-> ""] }

\* Room for one stanza more than the largest batch has records.
MaxRespLines == MaxBatchSize + 1

Responses == SeqsUpTo(RespLine, MaxRespLines) \ { << >> }

\* A dict of the three keys of one parsed stanza.
Item(o, t1, t2) ==
    ("original" :> o) @@ (target_lang1 :> t1) @@ (target_lang2 :> t2)

EmptyItem == Item(<< Blank >>, "", "")

ItemTruthy(it) ==
    Truthy(it["original"]) \/ it[target_lang1] # "" \/ it[target_lang2] # ""

(***************************************************************************)
(* SRTTranslator._parse_translation: a new stanza starts at an             *)
(* "Original:" line only.                                                  *)
(***************************************************************************)
RECURSIVE ParseLines(_, _, _)
ParseLines(lines, parsed, current_item) ==
    IF lines = << >>
    THEN IF ItemTruthy(current_item) THEN Append(parsed, current_item) ELSE parsed
    ELSE LET line == Head(lines) IN
         IF line.k = "Original"
         THEN IF ItemTruthy(current_item)
              THEN ParseLines(Tail(lines), Append(parsed, current_item),
                              [EmptyItem EXCEPT !["original"] = << line.v >>])
              ELSE ParseLines(Tail(lines), parsed,
                              [current_item EXCEPT !["original"] = << line.v >>])
         ELSE IF line.k = target_lang1
         THEN ParseLines(Tail(lines), parsed,
                         [current_item EXCEPT ![target_lang1] = line.v])
         ELSE IF line.k = target_lang2
         THEN ParseLines(Tail(lines), parsed,
                         [current_item EXCEPT ![target_lang2] = line.v])
         ELSE ParseLines(Tail(lines), parsed, current_item)

\* translation.strip() on a text given as its lines: the blank lines at both
\* ends go, and so does the indentation of the first line left.
Unindent(line) ==
    IF line.k = " Original" THEN [line EXCEPT !.k = "Original"] ELSE line

RECURSIVE LStripText(_)
LStripText(lines) ==
    IF lines = << >> THEN << >>
    ELSE IF Head(lines).k = "blank" THEN LStripText(Tail(lines))
    ELSE << Unindent(Head(lines)) >> \o Tail(lines)

RECURSIVE RStripText(_)
RStripText(lines) ==
    IF lines = << >> THEN << >>
    ELSE IF lines[Len(lines)].k = "blank"
         THEN RStripText(SubSeq(lines, 1, Len(lines) - 1))
         ELSE lines

_parse_translation(translation) ==
    ParseLines(RStripText(LStripText(translation)), << >>, EmptyItem)

(***************************************************************************)
(* SRTTranslator._align_translations: zip(originals, translations padded   *)
(* with None up to len(originals)); the padding entry is keyed by the      *)
(* literal strings 'target_lang1' and 'target_lang2'.                      *)
(***************************************************************************)
PadItem(original) ==
    ("original" :> original[3]) @@ ("target_lang1" :> TranslationError)
        @@ ("target_lang2" :> TranslationError)

AlignNoPad(translations, originals) ==
    [k \in 1..Min(Len(translations), Len(originals)) |-> translations[k]]

AlignNoTruncate(translations, originals) ==
    [k \in 1..(IF Len(translations) > Len(originals)
               THEN Len(translations) ELSE Len(originals)) |->
        IF k <= Len(translations) THEN translations[k] ELSE PadItem(originals[k])]

_align_translations(translations, originals) ==
    [k \in 1..Len(originals) |->
        IF k <= Len(translations) THEN translations[k] ELSE PadItem(originals[k])]

\* The entry written for every record of a batch whose translate_batch raised.
ErrorItem == Item(<< TranslationError >>, TranslationError, TranslationError)

(***************************************************************************)
(* SRTProcessor.format_srt.  A document is a sequence of lines; the final  *)
(* strip() removes the blank line after the last block.                    *)
(***************************************************************************)
Get(dict, key, default) == IF key \in DOMAIN dict THEN dict[key] ELSE default

FormatBlock(subtitle, translation, format_type, lang1, lang2) ==
    << subtitle[1], subtitle[2] >> \o
    ( IF format_type = "bilingual"
      THEN Get(translation, "original", subtitle[3]) \o
           << Get(translation, lang1, TranslationError) >>
      ELSE IF format_type = "dual_lang"
      THEN << Get(translation, lang1, TranslationError),
              Get(translation, lang2, TranslationError) >>
      ELSE << Get(translation, lang1, TranslationError) >> ) \o
    << Blank >>

format_srt(subs, translations, format_type, lang1, lang2) ==
    StripLines(Flatten([k \in 1..Min(Len(subs), Len(translations)) |->
        FormatBlock(subs[k], translations[k], format_type, lang1, lang2)]))

(***************************************************************************)
(* SRTProcessor.validate_srt_format: the stripped text is cut at its blank *)
(* lines (re.split(r'\n\s*\n')), and every piece must match, from      *)
(* its start,  \d+\n<timestamp>\n.+(\n.+)?(\n\n|$)  : a number line,     *)
(* a timestamp line written with " --> " (as both timestamps of this model *)
(* are), and one or two text lines, after which the piece ends.            *)
(***************************************************************************)
RECURSIVE SplitAtBlankLines(_, _, _)
SplitAtBlankLines(lines, cur, acc) ==
    IF lines = << >> THEN Append(acc, cur)
    ELSE IF IsBlank(Head(lines))
         THEN IF cur = << >> THEN SplitAtBlankLines(Tail(lines), cur, acc)
              ELSE SplitAtBlankLines(Tail(lines), << >>, Append(acc, cur))
         ELSE SplitAtBlankLines(Tail(lines), Append(cur, Head(lines)), acc)

\* Line 179: the lines that are made of digits are counted.
subtitle_count(srt_content) ==
    LET lines == StripLines(srt_content)
    IN  Cardinality({ n \in 1..Len(lines) : IsDigits(lines[n]) })

validate_srt_format(srt_content) ==
    LET blocks == SplitAtBlankLines(StripLines(srt_content), << >>, << >>)
    IN  \A n \in 1..Len(blocks) :
            /\ Len(blocks[n]) \in { 3, 4 }
            /\ IsDigits(blocks[n][1])
            /\ IsTimestamp(blocks[n][2])

(***************************************************************************)
(* bilingual_srt_translator(): the "Start Translation" handler, split at   *)
(* the remote calls of SRTTranslator.translate_subtitles.                  *)
(***************************************************************************)
notBilingual == << slept, batchOnly, structuredOnly, correctorOnly >>

total == Len(subtitles)

\* subtitles[i:i+BATCH_SIZE]
Batch(subs, start, size) == SubSeq(subs, start + 1, Min(start + size, Len(subs)))

\* for i in range(0, total, BATCH_SIZE): the loop is left once i >= total.
LoopDoneEarly(start, n) == start > 0 \/ start >= n

LoopDone(start, n) == start >= n

\* tenacity's stop_after_attempt(3): stop once attempt_number >= 3.
ShouldStopLate(attempt_number) == attempt_number > stop_after_attempt
ShouldStop(attempt_number) == attempt_number >= stop_after_attempt

\* min((i + BATCH_SIZE) / total, 1.0)
BatchProgressNoMin(start, size, n) == Frac(start + size, n)
BatchProgress(start, size, n) == FracMin1(Frac(start + size, n))

\* Lines 91-95: the reconciliation of one answer with its batch.
Reconcile(translation, batch) ==
    LET parsed_translations == _parse_translation(translation)
    IN  IF Len(parsed_translations) # Len(batch)
        THEN _align_translations(parsed_translations, batch)
        ELSE parsed_translations

\* Line 104: the entries of a batch whose request raised.
ErrorEntriesNone(batch) == << >>
ErrorEntries(batch) == [k \in 1..Len(batch) |-> ErrorItem]

\* The shape of an answer to a batch of n records: n stanzas with a line
\* without any label (a blank line) between them, each stanza made of
\* language-labelled lines only.
LabelledStanzas(translation, n) ==
    LET unlabelled == { m \in 1..Len(translation) : translation[m].k = "other" }
    IN  /\ \A m \in 1..Len(translation) : translation[m].k # "Original"
        /\ 1 \notin unlabelled
        /\ Len(translation) \notin unlabelled
        /\ \A m \in unlabelled : m + 1 \notin unlabelled
        /\ Cardinality(unlabelled) = n - 1

\* Lines 238-271: the download section offers full_srt (first option).
Download(sess, subs) ==
    IF sess # << >> /\ sess[1] # << >>
    THEN << format_srt(subs, sess[1], "bilingual", target_lang1, target_lang2) >>
    ELSE << >>

\* Lines 200-204 and 234-236: parse, or report the ValueError and stop.
StartTranslation ==
    /\ prog = "bilingual"
    /\ pc = "idle"
    /\ LET r == parse_srt(content) IN
       IF r.raised
       THEN /\ error' = "ValueError"
            /\ pc' = "done"
            /\ delivered' = Download(session, subtitles)
            /\ UNCHANGED subtitles
       ELSE /\ subtitles' = r.value
            /\ pc' = "translating"
            /\ UNCHANGED << error, delivered >>
    /\ UNCHANGED << prog, content, batch_size, i, attempt, translated_subtitles,
                    session, progress, origin, outcomes, last_request,
                    notBilingual >>

\* One attempt of translate_batch fails and tenacity schedules another.
TranslateBatchRetry ==
    /\ prog = "bilingual"
    /\ pc = "translating"
    /\ i < total
    /\ ~ShouldStop(attempt + 1)
    /\ attempt' = attempt + 1
    /\ UNCHANGED << prog, pc, content, subtitles, batch_size, i,
                    translated_subtitles, session, progress, error, origin,
                    outcomes, last_request, delivered, notBilingual >>

\* The last allowed attempt fails: RetryError reaches the except of line 102.
TranslateBatchGivesUp ==
    /\ prog = "bilingual"
    /\ pc = "translating"
    /\ i < total
    /\ ShouldStop(attempt + 1)
    /\ LET entries == ErrorEntries(Batch(subtitles, i, batch_size)) IN
       /\ translated_subtitles' = translated_subtitles \o entries
       /\ origin' = origin \o [k \in 1..Len(entries) |-> i]
    /\ outcomes' = Append(outcomes, "failed")
    /\ last_request' = Ended(TRUE, "raised")
    /\ attempt' = 0
    /\ i' = i + batch_size
    /\ UNCHANGED << prog, pc, content, subtitles, batch_size, session,
                    progress, error, delivered, notBilingual >>

\* An attempt of translate_batch returns the model's text; outcomes notes
\* whether it was made of one labelled stanza per record.
TranslateBatchReturns ==
    /\ prog = "bilingual"
    /\ pc = "translating"
    /\ i < total
    /\ \E translation \in Responses :
         LET parsed_translations ==
                 Reconcile(translation, Batch(subtitles, i, batch_size))
         IN  /\ translated_subtitles' = translated_subtitles \o parsed_translations
             /\ origin' = origin \o [k \in 1..Len(parsed_translations) |-> i]
             /\ outcomes' = Append(outcomes,
                    IF LabelledStanzas(translation,
                                       Len(Batch(subtitles, i, batch_size)))
                    THEN "labelled" ELSE "ok")
    /\ progress' = Append(progress, BatchProgress(i, batch_size, total))
    /\ last_request' = Ended(FALSE, "translation")
    /\ attempt' = 0
    /\ i' = i + batch_size
    /\ UNCHANGED << prog, pc, content, subtitles, batch_size, session, error,
                    delivered, notBilingual >>

\* The loop is over: lines 108, 213-232, then the download section.
FinishTranslation ==
    /\ prog = "bilingual"
    /\ pc = "translating"
    /\ LoopDone(i, total)
    /\ session' = << translated_subtitles >>
    /\ delivered' = Download(session', subtitles)
    /\ pc' = "done"
    /\ UNCHANGED << prog, content, subtitles, batch_size, i, attempt,
                    translated_subtitles, progress, error, origin, outcomes,
                    last_request, notBilingual >>

(***************************************************************************)
(* [batch]test_bilingual_srt_translator.py: parse_srt.                     *)
(* The pattern is  (\d+)\n(ts)\n((?:.+?\n)+?)(?:\n|$)  with DOTALL: the     *)
(* text is the shortest run of at least two characters that ends with a    *)
(* newline and is followed by a newline or by the end of the string.  No   *)
(* match is not an error: the function returns the empty list.             *)
(***************************************************************************)
BatchTextEnds(lines, p) ==
    { r \in (p + 2)..(Len(lines) - 1) :
        /\ IsBlank(lines[r + 1])
        /\ ~(r = p + 2 /\ IsBlank(lines[r])) }

BatchMatchAt(lines, p) ==
    /\ p + 2 <= Len(lines)
    /\ IsDigits(lines[p])
    /\ IsTimestamp(lines[p + 1])
    /\ BatchTextEnds(lines, p) # {}

RECURSIVE BatchFindAll(_, _, _)
BatchFindAll(lines, p, acc) ==
    IF p > Len(lines) THEN acc
    ELSE IF BatchMatchAt(lines, p)
         THEN LET ends == BatchTextEnds(lines, p)
                  r == CHOOSE e \in ends : \A f \in ends : e <= f
              IN  BatchFindAll(lines, r + 2,
                      Append(acc, << lines[p], lines[p + 1],
                                     StripLines(SubSeq(lines, p + 2, r)) >>))
         ELSE BatchFindAll(lines, p + 1, acc)

batch_parse_srt(doc) == BatchFindAll(doc, 1, << >>)

(***************************************************************************)
(* translate_subtitle: the answer is cut into lines and forced into        *)
(* (language 1, language 2) pairs; a line that does not start with the     *)
(* label expected at its place becomes that label's placeholder.           *)
(***************************************************************************)
Line1 == [k |-> target_lang1, v |-> "b"]
Line2 == [k |-> target_lang2, v |-> "c"]

ErrLine(lang) == [k |-> lang, v |-> TranslationError]

FormatLines(lines) ==
    [n \in 1..(2 * ((Len(lines) + 1) \div 2)) |->
        IF n % 2 = 1
        THEN IF lines[n].k = target_lang1 THEN lines[n] ELSE ErrLine(target_lang1)
        ELSE IF n <= Len(lines) /\ lines[n].k = target_lang2
             THEN lines[n] ELSE ErrLine(target_lang2)]

\* Line 70: what translate_subtitle returns when the last attempt failed.
FailureReturn == << ErrLine(target_lang1), ErrLine(target_lang2) >>

\* for attempt in range(max_retries): attempt == max_retries - 1 is the last.
IsLastAttemptLate(a) == a = 2 * max_retries

IsLastAttempt(a) == a = max_retries - 1

\* Line 71: time.sleep(2 ** attempt).
RetryDelay(a) == 2 ^ a

\* Answers of n lines that alternate the two labels, in the order asked for
\* or in the other one.
Alternating(first, n) ==
    [k \in 1..n |-> IF (k % 2 = 1) = (first = 1) THEN Line1 ELSE Line2]

\* Answers to a request for a whole batch, and for a single record.
BatchResponses ==
    { Alternating(f, n) : f \in { 1, 2 }, n \in 1..(2 * MaxBatchSize) }
SingleResponses == { Alternating(f, n) : f \in { 1, 2 }, n \in 1..2 }

(***************************************************************************)
(* batch_translate_subtitles, lines 88-95: the records of the batch take   *)
(* their pair of lines until one finds none and asks for a translation of  *)
(* its own.                                                                *)
(***************************************************************************)
Translated(rec, translation) ==
    << rec[1], rec[2], StripLines(rec[3]), translation >>

RECURSIVE RecordsLoop(_, _, _, _)
RecordsLoop(batch, lines, jj, acc) ==
    IF jj >= Len(batch) THEN [j |-> jj, acc |-> acc, need |-> FALSE]
    ELSE IF jj * 2 + 1 < Len(lines)
         THEN RecordsLoop(batch, lines, jj + 1,
                  Append(acc, Translated(batch[jj + 1],
                                  << lines[jj * 2 + 1], lines[jj * 2 + 2] >>)))
         ELSE [j |-> jj, acc |-> acc, need |-> TRUE]

\* "\n".join([text for _, _, text in batch])
batch_text(batch) == Flatten([k \in 1..Len(batch) |-> batch[k][3]])

\* (i + len(batch)) / total
BatchVariantProgress(start, batch, n) == Frac(start + Len(batch), n)

\* format_bilingual_srt(translated_subtitles, True, target_lang)
TargetTranslation(lines, lang) ==
    LET hits == { n \in 1..Len(lines) : lines[n].k = lang }
    IN  IF hits = {} THEN TranslationError
        ELSE lines[CHOOSE n \in hits : \A m \in hits : n <= m].v

format_bilingual_srt(results, lang) ==
    IF results = << >> THEN << Blank >>
    ELSE JoinBlocks([k \in 1..Len(results) |->
            << results[k][1], results[k][2] >> \o results[k][3] \o
            << TargetTranslation(results[k][4], lang) >>]) \o << Blank >>

\* Lines 168-196: the download section is shown unless the state is None.
BatchDownload(sess) ==
    IF sess # << >> THEN << format_bilingual_srt(sess[1], target_lang1) >> ELSE << >>

notBatch == << structuredOnly, correctorOnly >>

\* The records loop runs on until the batch is done or a record needs a call.
AfterLines(lines, start, acc) ==
    LET batch == Batch(subtitles, i, batch_size)
        r == RecordsLoop(batch, lines, start, acc)
    IN  /\ translated_subtitles' = r.acc
        /\ origin' = origin \o [k \in 1..(Len(r.acc) - Len(translated_subtitles)) |-> i]
        /\ translation_lines' = lines
        /\ attempt' = 0
        /\ slept' = << >>
        /\ IF r.need
           THEN /\ pc' = "single_request"
                /\ j' = r.j
                /\ UNCHANGED << i, progress >>
           ELSE /\ pc' = "loop"
                /\ j' = 0
                /\ i' = i + batch_size
                /\ progress' = Append(progress, BatchVariantProgress(i, batch, total))

\* Line 86: cache[batch_text] = translations.
CacheStoreNone(c, key, translations) == c

CacheStore(c, key, translations) == (key :> translations) @@ c

\* What follows the return of translate_subtitle, at either call site.
AfterRequest(translations) ==
    IF pc = "batch_request"
    THEN /\ cache' = CacheStore(cache, batch_text(Batch(subtitles, i, batch_size)),
                               translations)
         /\ AfterLines(translations, 0, translated_subtitles)
    ELSE /\ UNCHANGED cache
         /\ AfterLines(translation_lines, j + 1,
                Append(translated_subtitles,
                       Translated(Batch(subtitles, i, batch_size)[j + 1],
                                  translations)))

\* main(), lines 145-157, up to the first iteration of the loop.
BatchStart ==
    /\ prog = "batch"
    /\ pc = "idle"
    /\ subtitles' = batch_parse_srt(content)
    /\ pc' = "loop"
    /\ UNCHANGED << prog, content, batch_size, i, attempt, translated_subtitles,
                    session, progress, error, origin, outcomes, last_request,
                    delivered, slept, batchOnly, notBatch >>

\* Lines 78-86: the head of one iteration, with the cache lookup.
BatchLoop ==
    /\ prog = "batch"
    /\ pc = "loop"
    /\ i < total
    /\ LET key == batch_text(Batch(subtitles, i, batch_size)) IN
       IF key \in DOMAIN cache
       THEN AfterLines(cache[key], 0, translated_subtitles)
       ELSE /\ pc' = "batch_request"
            /\ UNCHANGED << i, attempt, translated_subtitles, progress, origin,
                            j, translation_lines, slept >>
    /\ UNCHANGED << prog, content, subtitles, batch_size, session, error,
                    outcomes, last_request, delivered, cache, calls, notBatch >>

\* An attempt of translate_subtitle raises and another one follows.
TranslateSubtitleRetry ==
    /\ prog = "batch"
    /\ pc \in { "batch_request", "single_request" }
    /\ ~IsLastAttempt(attempt)
    /\ slept' = Append(slept, RetryDelay(attempt))
    /\ attempt' = attempt + 1
    /\ calls' = calls + 1
    /\ UNCHANGED << prog, pc, content, subtitles, batch_size, i,
                    translated_subtitles, session, progress, error, origin,
                    outcomes, last_request, delivered, j, translation_lines,
                    cache, notBatch >>

\* The last attempt raises: the placeholder pair is returned.
TranslateSubtitleGivesUp ==
    /\ prog = "batch"
    /\ pc \in { "batch_request", "single_request" }
    /\ IsLastAttempt(attempt)
    /\ AfterRequest(FailureReturn)
    /\ last_request' = Ended(TRUE, "placeholder")
    /\ calls' = calls + 1
    /\ UNCHANGED << prog, content, subtitles, batch_size, session, error,
                    outcomes, delivered, notBatch >>

\* An attempt returns the model's text.
TranslateSubtitleReturns ==
    /\ prog = "batch"
    /\ pc \in { "batch_request", "single_request" }
    /\ \E translation \in (IF pc = "batch_request" THEN BatchResponses
                           ELSE SingleResponses) :
           AfterRequest(FormatLines(translation))
    /\ last_request' = Ended(FALSE, "translation")
    /\ calls' = calls + 1
    /\ UNCHANGED << prog, content, subtitles, batch_size, session, error,
                    outcomes, delivered, notBatch >>

\* Lines 100, 157 and the download section.
BatchFinish ==
    /\ prog = "batch"
    /\ pc = "loop"
    /\ i >= total
    /\ session' = << translated_subtitles >>
    /\ delivered' = BatchDownload(session')
    /\ pc' = "done"
    /\ UNCHANGED << prog, content, subtitles, batch_size, i, attempt,
                    translated_subtitles, progress, error, origin, outcomes,
                    last_request, slept, batchOnly, notBatch >>

(***************************************************************************)
(* test_bilingual_srt_translator.py works on the text itself: a text is a  *)
(* sequence of characters.  "1" is a digit, "T" stands for a timestamp,    *)
(* NL is the newline.                                                      *)
(***************************************************************************)
NL == "\n"

\* str.strip(): the only white space of these texts is the newline.
RECURSIVE CLStrip(_)
CLStrip(s) == IF s # << >> /\ Head(s) = NL THEN CLStrip(Tail(s)) ELSE s

RECURSIVE CRStrip(_)
CRStrip(s) ==
    IF s # << >> /\ s[Len(s)] = NL THEN CRStrip(SubSeq(s, 1, Len(s) - 1)) ELSE s

CStrip(s) == CRStrip(CLStrip(s))

\* str.split('\n\n'): leftmost separators first, empty pieces kept.
RECURSIVE SplitBlocks(_, _, _)
SplitBlocks(s, cur, acc) ==
    IF s = << >> THEN Append(acc, cur)
    ELSE IF Len(s) >= 2 /\ s[1] = NL /\ s[2] = NL
         THEN SplitBlocks(SubSeq(s, 3, Len(s)), << >>, Append(acc, cur))
         ELSE SplitBlocks(Tail(s), Append(cur, Head(s)), acc)

\* str.split('\n')
RECURSIVE SplitLines(_, _, _)
SplitLines(s, cur, acc) ==
    IF s = << >> THEN Append(acc, cur)
    ELSE IF Head(s) = NL
         THEN SplitLines(Tail(s), << >>, Append(acc, cur))
         ELSE SplitLines(Tail(s), Append(cur, Head(s)), acc)

\* sep.join(parts)
RECURSIVE Join(_, _)
Join(parts, sep) ==
    IF parts = << >> THEN << >>
    ELSE IF Len(parts) = 1 THEN Head(parts)
    ELSE Head(parts) \o sep \o Join(Tail(parts), sep)

(***************************************************************************)
(* split_text_into_chunks: current_size adds up the sizes of the blocks.   *)
(***************************************************************************)
\* Line 67.
Overflows(current_chunk, current_size, block_size, max_chunk_size) ==
    /\ current_size + block_size > max_chunk_size
    /\ current_chunk # << >>

\* Line 68 / 76: the chunk as text, and a variant that drops its last block.
CloseChunkLossy(current_chunk) ==
    Join(SubSeq(current_chunk, 1, 1), << NL, NL >>)
CloseChunk(current_chunk) == Join(current_chunk, << NL, NL >>)

RECURSIVE ChunkLoop(_, _, _, _, _)
ChunkLoop(blocks, chunks, current_chunk, current_size, max_chunk_size) ==
    IF blocks = << >>
    THEN IF current_chunk # << >>
         THEN Append(chunks, CloseChunk(current_chunk))
         ELSE chunks
    ELSE LET block == Head(blocks)
             block_size == Len(block)
         IN  IF Overflows(current_chunk, current_size, block_size, max_chunk_size)
             THEN ChunkLoop(Tail(blocks),
                            Append(chunks, CloseChunk(current_chunk)),
                            << block >>, block_size, max_chunk_size)
             ELSE ChunkLoop(Tail(blocks), chunks, Append(current_chunk, block),
                            current_size + block_size, max_chunk_size)

split_text_into_chunks(text, max_chunk_size) ==
    ChunkLoop(SplitBlocks(CStrip(text), << >>, << >>), << >>, << >>, 0,
              max_chunk_size)

(***************************************************************************)
(* parse_srt_block and the request of translate_subtitle_chunk (line 82).  *)
(***************************************************************************)
BlockLines(block) == SplitLines(CStrip(block), << >>, << >>)

\* None for a block of fewer than three lines.
IsNone(block) == Len(BlockLines(block)) < 3

\* int(lines[0]) raises ValueError unless the line is made of digits.
IntRaises(block) ==
    LET first == BlockLines(block)[1]
    IN  first = << >> \/ \E n \in 1..Len(first) : first[n] # "1"

ChunkBlocks(text) == SplitBlocks(CStrip(text), << >>, << >>)

RequestRaises(text) ==
    \E n \in 1..Len(ChunkBlocks(text)) :
        ~IsNone(ChunkBlocks(text)[n]) /\ IntRaises(ChunkBlocks(text)[n])

parse_srt_block(block) ==
    LET lines == BlockLines(block)
    IN  [number |-> lines[1], timestamp |-> lines[2],
         original |-> Join(SubSeq(lines, 3, Len(lines)), << NL >>)]

RECURSIVE KeepParsed(_)
KeepParsed(blocks) ==
    IF blocks = << >> THEN << >>
    ELSE IF IsNone(Head(blocks)) THEN KeepParsed(Tail(blocks))
    ELSE << parse_srt_block(Head(blocks)) >> \o KeepParsed(Tail(blocks))

subtitle_blocks(text) == KeepParsed(ChunkBlocks(text))

(***************************************************************************)
(* The object the model returns for a chunk: the first m blocks of the     *)
(* request with their two translations, and one block of its own making    *)
(* when it returns more blocks than it was given.                          *)
(***************************************************************************)
Invented == [number |-> << "1" >>, timestamp |-> << "T" >>, original |-> << "x" >>]

Answer(request, m) ==
    [n \in 1..m |-> IF n <= Len(request) THEN request[n] ELSE Invented]

\* Lines 128-131: the text made of the returned blocks.
RenderBlock(b) ==
    b.number \o << NL >> \o b.timestamp \o << NL >> \o b.original \o
    << NL, "b", NL, "c" >>

Render(answer) ==
    Join([n \in 1..Len(answer) |-> RenderBlock(answer[n])], << NL, NL >>)

(***************************************************************************)
(* process_srt_file and translate_subtitle_chunk, split at the remote      *)
(* calls.                                                                  *)
(***************************************************************************)
notStructured == << batchOnly, correctorOnly >>

total_chunks == Len(text_chunks)

\* Line 135: the exception of the last attempt is raised again.
ReRaisesNever(a) == FALSE
ReRaises(a) == a = max_retries - 1

\* (i + 1) / total_chunks
ChunkProgress(k, n) == Frac(k + 1, n)

\* Lines 198-199: the chunk's text is appended and the progress reported.
ChunkDone(translated_chunk) ==
    /\ translated_text' = translated_text \o translated_chunk \o << NL, NL >>
    /\ progress' = Append(progress, ChunkProgress(i, total_chunks))
    /\ i' = i + 1
    /\ attempt' = 0

\* Lines 190-192.
StructuredStart ==
    /\ prog = "structured"
    /\ pc = "idle"
    /\ text_chunks' = split_text_into_chunks(content, batch_size)
    /\ pc' = "chunks"
    /\ UNCHANGED << prog, content, subtitles, batch_size, i, attempt,
                    translated_subtitles, session, progress, error, origin,
                    outcomes, last_request, delivered, translated_text, slept,
                    notStructured >>

\* Line 82 raises ValueError: a block of the chunk starts with no number.
ChunkRequestRaises ==
    /\ prog = "structured"
    /\ pc = "chunks"
    /\ i < total_chunks
    /\ attempt = 0
    /\ RequestRaises(text_chunks[i + 1])
    /\ error' = "ValueError"
    /\ pc' = "done"
    /\ UNCHANGED << prog, content, subtitles, batch_size, i, attempt,
                    translated_subtitles, session, progress, origin, outcomes,
                    last_request, delivered, slept, structuredOnly,
                    notStructured >>

\* An attempt raises (the call, or the parsing of its answer).
ChunkAttemptFails ==
    /\ prog = "structured"
    /\ pc = "chunks"
    /\ i < total_chunks
    /\ ~RequestRaises(text_chunks[i + 1])
    /\ IF ReRaises(attempt)
       THEN /\ error' = "Exception"
            /\ pc' = "done"
            /\ last_request' = Ended(TRUE, "raised")
            /\ UNCHANGED << i, attempt, progress, translated_text >>
       ELSE IF attempt + 1 < max_retries
       THEN \* lines 133-136: the next attempt follows at once
            /\ attempt' = attempt + 1
            /\ UNCHANGED << pc, error, last_request, i, progress, translated_text >>
       ELSE \* lines 138-139: the loop is over, the chunk itself is returned
            /\ ChunkDone(text_chunks[i + 1])
            /\ last_request' = Ended(TRUE, "source")
            /\ UNCHANGED << pc, error >>
    /\ UNCHANGED << prog, content, subtitles, batch_size, translated_subtitles,
                    session, origin, outcomes, delivered, text_chunks, slept,
                    notStructured >>

\* An attempt returns an object of m subtitle blocks.
ChunkReturns ==
    /\ prog = "structured"
    /\ pc = "chunks"
    /\ i < total_chunks
    /\ ~RequestRaises(text_chunks[i + 1])
    /\ LET request == subtitle_blocks(text_chunks[i + 1]) IN
       \E m \in 0..(Len(request) + 1) : ChunkDone(Render(Answer(request, m)))
    /\ last_request' = Ended(FALSE, "translation")
    /\ UNCHANGED << prog, pc, content, subtitles, batch_size,
                    translated_subtitles, session, error, origin, outcomes,
                    delivered, text_chunks, slept, notStructured >>

\* Lines 204 and 261-288: the text is returned, checked and offered.
StructuredFinish ==
    /\ prog = "structured"
    /\ pc = "chunks"
    /\ i >= total_chunks
    /\ delivered' = << translated_text >>
    /\ pc' = "done"
    /\ UNCHANGED << prog, content, subtitles, batch_size, i, attempt,
                    translated_subtitles, session, progress, error, origin,
                    outcomes, last_request, slept, structuredOnly,
                    notStructured >>

(***************************************************************************)
(* subtitle_corrector.py: parse_srt.                                       *)
(* The pattern is  (\d+)\s*\n(start)\s*-->\s*(end)\s*\n(.*?)\n\s*\n  with  *)
(* DOTALL: the content starts at the first non-blank line after the        *)
(* timestamp and ends at the first line that a blank line follows, and     *)
(* that blank line must itself be ended by a newline.  (The documents of   *)
(* this model have no blank line right after a timestamp.)                 *)
(***************************************************************************)
ContentStart(lines, p) ==
    LET cs == { c \in (p + 2)..Len(lines) : ~IsBlank(lines[c]) }
    IN  IF cs = {} THEN 0 ELSE CHOOSE c \in cs : \A d \in cs : c <= d

ContentEnds(lines, c) ==
    { r \in c..(Len(lines) - 2) : IsBlank(lines[r + 1]) }

CorrectorMatchAt(lines, p) ==
    /\ p + 2 <= Len(lines)
    /\ IsDigits(lines[p])
    /\ IsTimestamp(lines[p + 1])
    /\ ContentStart(lines, p) # 0
    /\ ContentEnds(lines, ContentStart(lines, p)) # {}

RECURSIVE CorrectorFindAll(_, _, _)
CorrectorFindAll(lines, p, acc) ==
    IF p > Len(lines) THEN acc
    ELSE IF CorrectorMatchAt(lines, p)
         THEN LET c == ContentStart(lines, p)
                  ends == ContentEnds(lines, c)
                  r == CHOOSE e \in ends : \A f \in ends : e <= f
              IN  CorrectorFindAll(lines, r + 2,
                      Append(acc, << lines[p], lines[p + 1], lines[p + 1],
                                     SubSeq(lines, c, r) >>))
         ELSE CorrectorFindAll(lines, p + 1, acc)

corrector_parse_srt(srt_content) == CorrectorFindAll(srt_content, 1, << >>)

\* parse_time(start), in seconds.
parse_time(time_str) == IF time_str = "T1" THEN 1 ELSE 2

\* validate_srt_format: some record, and no record of blank content.
corrector_validate_srt_format(srt_content) ==
    LET subs == corrector_parse_srt(srt_content)
    IN  /\ subs # << >>
        /\ \A k \in 1..Len(subs) : Truthy(StripLines(subs[k][4]))

\* Line 167: the count of the report is len(subtitles).
corrector_subtitle_count(srt_content) == Len(corrector_parse_srt(srt_content))

\* list.sort(key=...) is stable: insertion behind the entries of equal key.
RECURSIVE InsertByStart(_, _)
InsertByStart(sorted, x) ==
    IF sorted = << >> THEN << x >>
    ELSE IF parse_time(Head(sorted)[2]) <= parse_time(x[2])
         THEN << Head(sorted) >> \o InsertByStart(Tail(sorted), x)
         ELSE << x >> \o sorted

RECURSIVE SortByStart(_)
SortByStart(s) ==
    IF s = << >> THEN << >>
    ELSE InsertByStart(SortByStart(SubSeq(s, 1, Len(s) - 1)), s[Len(s)])

\* str(i) of enumerate(corrected_subtitles, 1)
Numeral(k) == << "1", "2", "3", "4", "5", "6", "7", "8" >>[k]

\* Lines 233-236: the blocks are renumbered, each ends with one newline, and
\* they are joined by one more; nothing follows the last block's newline.
CorrectedSrt(corrected) ==
    Flatten([k \in 1..Len(corrected) |->
        << Numeral(k), corrected[k][2] >> \o corrected[k][4] \o << Blank >>])

\* update_srt_with_edits: edits_dict maps a record's source index to the
\* text of the last change listed for that index; the records are then
\* written as CorrectedSrt writes them.
EditForAny(edited_changes, index, text) ==
    IF edited_changes = << >> THEN text ELSE edited_changes[1][3]

EditFor(edited_changes, index, text) ==
    LET hits == { n \in 1..Len(edited_changes) : edited_changes[n][1] = index }
    IN  IF hits = {} THEN text
        ELSE edited_changes[CHOOSE n \in hits : \A m \in hits : m <= n][3]

update_srt_with_edits(corrected_subtitles, edited_changes) ==
    CorrectedSrt([k \in 1..Len(corrected_subtitles) |->
        << corrected_subtitles[k][1], corrected_subtitles[k][2],
           corrected_subtitles[k][3],
           EditFor(edited_changes, corrected_subtitles[k][1],
                   corrected_subtitles[k][4]) >>])

(***************************************************************************)
(* subtitle_corrector() and process_srt: one future per record on a pool   *)
(* of MAX_WORKERS threads; the main thread takes the futures as they       *)
(* complete.                                                               *)
(***************************************************************************)
notCorrector == << slept, batchOnly, structuredOnly >>

Running == { k \in 1..Len(futures) : futures[k].state = "running" }
Queued == { k \in 1..Len(futures) : futures[k].state = "queued" }

\* ThreadPoolExecutor(max_workers=MAX_WORKERS): a queued call starts when
\* fewer than MAX_WORKERS calls are running.
WorkerFreeAlways(running) == TRUE

WorkerFree(running) == Cardinality(running) < MAX_WORKERS

\* What the model may answer for a record: its text, or another one.
Corrections(original) == { original, << "z" >> }

\* (i + 1) / len(subtitles)
CorrectorProgress(k, n) == Frac(k + 1, n)

\* Lines 209-212 and 127-135: the input is checked and every record submitted.
CorrectorStart ==
    /\ prog = "corrector"
    /\ pc = "idle"
    /\ IF corrector_validate_srt_format(content)
       THEN /\ subtitles' = corrector_parse_srt(content)
            /\ futures' = [k \in 1..Len(subtitles') |->
                              [state |-> "queued", corrected |-> << >>]]
            /\ pc' = "pool"
            /\ UNCHANGED error
       ELSE /\ error' = "invalid input"
            /\ pc' = "done"
            /\ UNCHANGED << subtitles, futures >>
    /\ UNCHANGED << prog, content, batch_size, i, attempt, translated_subtitles,
                    session, progress, origin, outcomes, last_request,
                    delivered, completed, changes, notCorrector >>

\* A free worker thread takes the oldest queued call.
WorkerStarts ==
    /\ prog = "corrector"
    /\ pc \in { "pool", "joining" }
    /\ Queued # {}
    /\ WorkerFree(Running)
    /\ LET k == CHOOSE q \in Queued : \A r \in Queued : q <= r
       IN  futures' = [futures EXCEPT ![k].state = "running"]
    /\ UNCHANGED << prog, pc, content, subtitles, batch_size, i, attempt,
                    translated_subtitles, session, progress, error, origin,
                    outcomes, last_request, delivered, completed, changes,
                    notCorrector >>

\* correct_subtitle returns the model's text for a record.
CorrectSubtitleReturns ==
    /\ prog = "corrector"
    /\ pc \in { "pool", "joining" }
    /\ \E k \in Running :
       \E corrected \in Corrections(StripLines(subtitles[k][4])) :
         /\ futures' = [futures EXCEPT ![k] =
                           [state |-> "ok", corrected |-> corrected]]
         /\ completed' = completed \cup { k }
    /\ UNCHANGED << prog, pc, content, subtitles, batch_size, i, attempt,
                    translated_subtitles, session, progress, error, origin,
                    outcomes, last_request, delivered, changes, notCorrector >>

\* correct_subtitle raises (line 122): the future holds the exception.
CorrectSubtitleRaises ==
    /\ prog = "corrector"
    /\ pc \in { "pool", "joining" }
    /\ \E k \in Running :
         /\ futures' = [futures EXCEPT ![k].state = "failed"]
         /\ completed' = completed \cup { k }
    /\ UNCHANGED << prog, pc, content, subtitles, batch_size, i, attempt,
                    translated_subtitles, session, progress, error, origin,
                    outcomes, last_request, delivered, changes, notCorrector >>

\* Lines 136-148: the body of the as_completed loop for one future.
TakeCompleted ==
    /\ prog = "corrector"
    /\ pc = "pool"
    /\ \E k \in completed :
         /\ completed' = completed \ { k }
         /\ IF futures[k].state = "ok"
            THEN LET original == StripLines(subtitles[k][4])
                     corrected == futures[k].corrected
                 IN  /\ translated_subtitles' =
                            Append(translated_subtitles,
                                   << subtitles[k][1], subtitles[k][2],
                                      subtitles[k][3], corrected >>)
                     /\ origin' = Append(origin, k)
                     /\ changes' = IF original # corrected
                                   THEN Append(changes, << subtitles[k][1],
                                                           original, corrected >>)
                                   ELSE changes
                     /\ progress' = Append(progress, CorrectorProgress(i, total))
                     /\ i' = i + 1
                     /\ UNCHANGED << pc, last_request >>
            ELSE /\ pc' = "joining"
                 /\ last_request' = Ended(TRUE, "raised")
                 /\ UNCHANGED << translated_subtitles, origin, changes,
                                 progress, i >>
    /\ UNCHANGED << prog, content, subtitles, batch_size, attempt, session,
                    error, outcomes, delivered, futures, notCorrector >>

\* The pool is left once every call has ended: lines 148-152 and 227-254.
\* The document is offered only if validate_srt_format accepts it.  origin
\* follows its record through the sort.
CorrectorFinish ==
    /\ prog = "corrector"
    /\ \/ pc = "pool" /\ i >= total
       \/ pc = "joining"
    /\ Running = {}
    /\ Queued = {}
    /\ IF pc = "pool"
       THEN LET tagged == [k \in 1..Len(translated_subtitles) |->
                              translated_subtitles[k] \o << origin[k] >>]
                sorted == SortByStart(tagged)
            IN  /\ translated_subtitles' =
                       [k \in 1..Len(sorted) |-> SubSeq(sorted[k], 1, 4)]
                /\ origin' = [k \in 1..Len(sorted) |-> sorted[k][5]]
                /\ IF corrector_validate_srt_format(CorrectedSrt(translated_subtitles'))
                   THEN /\ delivered' = << CorrectedSrt(translated_subtitles') >>
                        /\ UNCHANGED error
                   ELSE /\ error' = "invalid output"
                        /\ UNCHANGED delivered
       ELSE /\ error' = "None returned"
            /\ UNCHANGED << translated_subtitles, origin, delivered >>
    /\ pc' = "done"
    /\ UNCHANGED << prog, content, subtitles, batch_size, i, attempt, session,
                    progress, outcomes, last_request, correctorOnly,
                    notCorrector >>

(***************************************************************************)
(* The properties claimed of the programs.                                 *)
(***************************************************************************)
\* The start of the batch that holds position p, and that batch's number.
StartOfBatch(p) == batch_size * ((p - 1) \div batch_size)
NumberOfBatch(p) == (p - 1) \div batch_size + 1

\* The number of iterations of range(0, n, size).
BatchCount(n, size) == (n + size - 1) \div size

\* The batching loops between two iterations, or after the last one.
BetweenBatches ==
    \/ prog = "bilingual" /\ pc \in { "translating", "done" } /\ error = "none"
    \/ prog = "batch" /\ pc \in { "loop", "done" }

\* C1: translate_subtitles and batch_translate_subtitles return exactly n
\* results for n records, whatever each batch's answer was (fewer, as many
\* or more stanzas than records, or a failure after all retries), and the
\* results of a batch stand at the positions of that batch's records.
C1_ResultsInBatchPositions ==
    BetweenBatches =>
        /\ Len(translated_subtitles) = Min(i, total)
        /\ Len(origin) = Len(translated_subtitles)
        /\ pc = "done" => Len(translated_subtitles) = total
        /\ \A p \in 1..Len(translated_subtitles) :
             /\ origin[p] = StartOfBatch(p)
             /\ prog = "batch" =>
                  /\ translated_subtitles[p][1] = subtitles[p][1]
                  /\ translated_subtitles[p][2] = subtitles[p][2]
                  /\ translated_subtitles[p][3] = StripLines(subtitles[p][3])

C1_Witness ==
    /\ prog = "bilingual"
    /\ pc = "done"
    /\ total = 3
    /\ batch_size = 2
    /\ outcomes = << "ok", "failed" >>
    /\ Len(translated_subtitles) = 3

\* The non-empty blocks of a text of the structured variant.
RECURSIVE NonEmpty(_)
NonEmpty(blocks) ==
    IF blocks = << >> THEN << >>
    ELSE IF Head(blocks) = << >> THEN NonEmpty(Tail(blocks))
    ELSE << Head(blocks) >> \o NonEmpty(Tail(blocks))

OutputBlocks(text) == NonEmpty(SplitBlocks(CStrip(text), << >>, << >>))

\* C2: process_srt_file writes exactly one output block for every record of
\* the input, in the input's order, however many subtitle objects the model
\* returns for a chunk.
C2_OneBlockPerRecord ==
    ( /\ prog = "structured"
      /\ batch_size = default_max_chunk_size
      /\ delivered # << >> ) =>
        LET records == subtitle_blocks(content)
            blocks == OutputBlocks(delivered[1])
        IN  /\ Len(blocks) = Len(records)
            /\ \A n \in 1..Len(blocks) :
                 /\ BlockLines(blocks[n])[1] = records[n].number
                 /\ BlockLines(blocks[n])[2] = records[n].timestamp

\* C3: whichever batches fail on all their attempts, translate_subtitles
\* raises nothing, writes the error placeholder for exactly the records of
\* the failed batches, goes on to every later batch, and never changes a
\* result it has already appended.
C3_State ==
    (prog = "bilingual" /\ pc # "idle" /\ error = "none") =>
        /\ \A p \in 1..Len(translated_subtitles) :
             /\ NumberOfBatch(p) <= Len(outcomes)
             /\ (outcomes[NumberOfBatch(p)] = "failed")
                    <=> (translated_subtitles[p] = ErrorItem)
        /\ pc = "done" =>
             /\ Len(outcomes) = BatchCount(total, batch_size)
             /\ Len(translated_subtitles) = total
             /\ session = << translated_subtitles >>

C3_Step ==
    prog = "bilingual" =>
        /\ Len(translated_subtitles') >= Len(translated_subtitles)
        /\ SubSeq(translated_subtitles', 1, Len(translated_subtitles))
               = translated_subtitles
        /\ pc # "idle" => error' = error
        /\ Len(outcomes') > Len(outcomes) =>
               /\ pc' = "translating"
               /\ i' = i + batch_size

C3_FailedBatchesDegrade == [](C3_State) /\ [][C3_Step]_vars

C3_Witness ==
    /\ prog = "bilingual"
    /\ pc = "done"
    /\ batch_size = 1
    /\ outcomes = << "ok", "failed", "ok" >>
    /\ translated_subtitles[2] = ErrorItem
    /\ translated_subtitles[3] # ErrorItem

\* C4: a remote call that fails for one unit never aborts process_srt or
\* process_srt_file: the run still gives a document.
C4_FailureNeverAborts ==
    ( /\ prog \in { "corrector", "structured" }
      /\ pc = "done"
      /\ last_request.exhausted ) =>
        /\ delivered # << >>
        /\ error = "none"

\* C5: the chunks of split_text_into_chunks, in order, hold the blocks of
\* the text exactly once each and in order; so do the slices the batching
\* loops take from the record list.
C5_ChunksCoverBlocks ==
    /\ (prog = "structured" /\ pc # "idle") =>
           Flatten([k \in 1..Len(text_chunks) |->
                       SplitBlocks(text_chunks[k], << >>, << >>)])
               = SplitBlocks(CStrip(content), << >>, << >>)
    /\ BetweenBatches =>
           Flatten([k \in 1..BatchCount(Min(i, total), batch_size) |->
                       Batch(subtitles, (k - 1) * batch_size, batch_size)])
               = SubSeq(subtitles, 1, Min(i, total))

C5_Witness ==
    /\ prog = "structured"
    /\ Len(text_chunks) >= 2
    /\ \E k \in 1..Len(text_chunks) :
           Len(SplitBlocks(text_chunks[k], << >>, << >>)) >= 2

\* C6: a chunk of split_text_into_chunks that holds more than one block is,
\* as the text sent, no longer than max_chunk_size.
C6_MultiBlockChunkWithinLimit ==
    (prog = "structured" /\ pc # "idle") =>
        \A k \in 1..Len(text_chunks) :
            Len(SplitBlocks(text_chunks[k], << >>, << >>)) > 1
                => Len(text_chunks[k]) <= batch_size

\* C7: a translation request (translate_batch, translate_subtitle,
\* translate_subtitle_chunk) makes at most 3 attempts: no attempt follows
\* the third failure, and a new attempt is made only after a failed one,
\* which has produced nothing.
C7_AtMostThreeAttempts ==
    /\ [](prog \in { "bilingual", "batch", "structured" } => attempt + 1 <= 3)
    /\ [][ attempt' # attempt =>
             \/ attempt' = 0
             \/ /\ attempt' = attempt + 1
                /\ attempt' + 1 <= 3
                /\ UNCHANGED << translated_subtitles, translated_text,
                                last_request, i >> ]_vars

C7_Witness ==
    /\ prog = "bilingual"
    /\ attempt = 2
    /\ last_request.exhausted

C9_ProgressMonotone ==
    prog \in { "bilingual", "corrector", "structured" } =>
        /\ \A n \in 1..Len(progress) :
             /\ progress[n][2] > 0
             /\ 0 <= progress[n][1]
             /\ progress[n][1] <= progress[n][2]
        /\ \A n \in 1..(Len(progress) - 1) : FracLeq(progress[n], progress[n + 1])

C9_Witness ==
    /\ prog = "bilingual"
    /\ total = 3
    /\ batch_size = 2
    /\ progress = << << 2, 3 >>, << 1, 1 >> >>

\* C10: when no block of the input matches the grammar, parsing fails with
\* an error, no translation is requested and no document is offered.
C10_NoMatchIsAnError ==
    ( /\ pc = "done"
      /\ \/ prog = "bilingual" /\ parse_srt(content).raised
         \/ prog = "batch" /\ batch_parse_srt(content) = << >> ) =>
        /\ error # "none"
        /\ last_request = NoRequest
        /\ delivered = << >>

\* The corrector's phase is complete: every call returned and was collected,
\* and the list is sorted.
CorrectionComplete ==
    /\ prog = "corrector"
    /\ pc = "done"
    /\ total >= 1
    /\ Len(translated_subtitles) = total

\* The records a text of the corrector must give back when parsed: numbered
\* 1..N, with the start, end and text that were written.
Reparsed(records, text) ==
    LET again == corrector_parse_srt(text)
    IN  /\ Len(again) = Len(records)
        /\ \A k \in 1..Len(again) :
             /\ again[k][1] = Numeral(k)
             /\ again[k][2] = records[k][2]
             /\ again[k][3] = records[k][3]
             /\ again[k][4] = records[k][4]

\* C11: in the corrector, parse_srt of a serialized document gives back the
\* records that were serialized (as many, numbered 1..N, same times and
\* text), for the text built from corrected_subtitles and for the one built
\* by update_srt_with_edits.
C11_CorrectorRoundTrip ==
    CorrectionComplete =>
        /\ Reparsed(translated_subtitles, CorrectedSrt(translated_subtitles))
        /\ Reparsed(translated_subtitles,
                    update_srt_with_edits(translated_subtitles, changes))

\* The translation phase of the bilingual translator is complete.
TranslationComplete ==
    /\ prog = "bilingual"
    /\ pc = "done"
    /\ session # << >>

\* The output modes of format_srt and the languages each one writes.
Modes == { "bilingual", "dual_lang", "single" }
Requested(mode) ==
    IF mode = "dual_lang" THEN { target_lang1, target_lang2 } ELSE { target_lang1 }

\* Every record has a translation that is neither empty nor the placeholder,
\* in each language the mode writes.
FullyTranslated(translations, mode) ==
    \A k \in 1..Len(translations) : \A lang \in Requested(mode) :
        /\ lang \in DOMAIN translations[k]
        /\ translations[k][lang] \notin { "", TranslationError }

\* C12: for the records parse_srt produced and every output mode,
\* validate_srt_format accepts the text of format_srt whenever every record
\* has a non-empty, non-placeholder translation in each requested language.
C12_ValidatorAcceptsTranslated ==
    TranslationComplete =>
        \A mode \in Modes :
            FullyTranslated(session[1], mode) =>
                validate_srt_format(format_srt(subtitles, session[1], mode,
                                               target_lang1, target_lang2))

\* C13: process_srt returns the corrected records in the order of the
\* input's records, whatever their start times and whatever the order in
\* which the correct_subtitle calls complete.
C13_CorrectedInRecordOrder ==
    CorrectionComplete =>
        \A k \in 1..Len(translated_subtitles) :
            /\ origin[k] = k
            /\ translated_subtitles[k][1] = subtitles[k][1]
            /\ translated_subtitles[k][2] = subtitles[k][2]

\* process_srt_file has returned its text.
ChunksComplete ==
    /\ prog = "structured"
    /\ pc = "done"
    /\ i >= total_chunks

\* C14: a failed validation never prevents delivery: once the translation
\* or correction phase is complete the document is offered, valid or not.
C14_InvalidStillDelivered ==
    (TranslationComplete \/ CorrectionComplete \/ ChunksComplete) =>
        delivered # << >>

\* The text lines a mode writes in every block.
TextLines(mode) == IF mode = "single" THEN 1 ELSE 2

\* C15: format_srt never writes an empty text line: a translation that is
\* absent or empty is replaced by a visible placeholder, so that every
\* block has its number, its timestamp and the mode's count of non-empty
\* text lines.
C15_NoEmptyTextLine ==
    TranslationComplete =>
        \A mode \in Modes : \A k \in 1..Len(subtitles) :
            LET block == FormatBlock(subtitles[k], session[1][k], mode,
                                     target_lang1, target_lang2)
            IN  /\ Len(block) >= 2 + TextLines(mode) + 1
                /\ \A n \in 1..(Len(block) - 1) : ~IsBlank(block[n])

\* C16: when the answer to a batch of n records is n stanzas separated by
\* blank lines, each of language-labelled lines only, the i-th record of
\* the batch gets the translation of the i-th stanza: every record of the
\* batch has a parsed entry that holds a translation.
C16_StanzasReachTheirRecords ==
    (prog = "bilingual" /\ pc # "idle" /\ error = "none") =>
        \A p \in 1..Len(translated_subtitles) :
            outcomes[NumberOfBatch(p)] = "labelled" =>
                /\ target_lang1 \in DOMAIN translated_subtitles[p]
                /\ target_lang2 \in DOMAIN translated_subtitles[p]
                /\ \/ translated_subtitles[p][target_lang1] # ""
                   \/ translated_subtitles[p][target_lang2] # ""

\* C17: in source-plus-translation output the source text of block i is the
\* text of input record i as parsed, whatever the model answered and also
\* when the record's batch failed.
C17_SourceTextKept ==
    TranslationComplete =>
        \A k \in 1..Len(subtitles) :
            LET block == FormatBlock(subtitles[k], session[1][k], "bilingual",
                                     target_lang1, target_lang2)
            IN  SubSeq(block, 3, Len(block) - 2) = subtitles[k][3]

\* A request for the batch at i is in progress.
BatchRequested ==
    /\ prog = "bilingual"
    /\ pc = "translating"
    /\ i < total

\* C18: _align_translations returns exactly len(originals) entries: the
\* first min(len(translations), len(originals)) parsed entries in their
\* order, then one placeholder entry for each record left; parsed entries
\* beyond len(originals) are dropped.
C18_AlignToBatchLength ==
    BatchRequested =>
        \A translation \in Responses :
            LET translations == _parse_translation(translation)
                originals == Batch(subtitles, i, batch_size)
                aligned == _align_translations(translations, originals)
            IN  /\ Len(aligned) = Len(originals)
                /\ \A k \in 1..Len(aligned) :
                     IF k <= Len(translations)
                     THEN aligned[k] = translations[k]
                     ELSE /\ aligned[k]["original"] = originals[k][3]
                          /\ \A key \in DOMAIN aligned[k] \ { "original" } :
                                 aligned[k][key] = TranslationError

C18_Witness ==
    /\ BatchRequested
    /\ Len(Batch(subtitles, i, batch_size)) = 2
    /\ \E translation \in Responses : Len(_parse_translation(translation)) = 3
    /\ \E translation \in Responses : Len(_parse_translation(translation)) = 1

\* C19: every result of translate_subtitles has, next to the source-text
\* field, exactly the two requested language labels as its keys, whether it
\* was parsed, padded by _align_translations or written for a failed batch.
C19_KeysAreTheLanguages ==
    (prog = "bilingual" /\ pc # "idle") =>
        \A p \in 1..Len(translated_subtitles) :
            DOMAIN translated_subtitles[p]
                = { "original", target_lang1, target_lang2 }

\* C20: the serialized output numbers its blocks 1, 2, ..., N in output
\* order, whatever numbers the source records carried, in format_srt and in
\* the corrector's serialization.
C20_BlocksRenumbered ==
    /\ TranslationComplete =>
           \A mode \in Modes : \A k \in 1..Len(subtitles) :
               FormatBlock(subtitles[k], session[1][k], mode,
                           target_lang1, target_lang2)[1] = Numeral(k)
    /\ CorrectionComplete =>
           LET blocks == SplitAtBlankLines(
                   update_srt_with_edits(translated_subtitles, changes),
                   << >>, << >>)
           IN  \A k \in 1..Len(blocks) : blocks[k][1] = Numeral(k)
(***************************************************************************)
(* Retry delays, progress reports, validators, the worker pool, the cache  *)
(* of the batch variant, phases, and the edits of the corrector.           *)
(***************************************************************************)

\* The request loops the delay rule is stated for: translate_subtitle and
\* translate_subtitle_chunk.
InRetryLoop ==
    \/ prog = "batch" /\ pc \in { "batch_request", "single_request" }
    \/ prog = "structured" /\ pc = "chunks"

\* C21: inside one request every failed attempt is followed by a delay before
\* the next attempt, 1 unit before the second attempt and 2 units before the
\* third: the request in progress has slept once per failed attempt, for 2^(n-1)
\* units after its n-th failure.
C21_DelayBetweenAttempts ==
    InRetryLoop =>
        /\ Len(slept) = attempt
        /\ \A n \in 1..Len(slept) : slept[n] = 2 ^ (n - 1)

\* The part of C21 that holds: the delays of translate_subtitle.
C21_BatchVariantDelays ==
    prog = "batch" =>
        /\ Len(slept) = attempt
        /\ \A n \in 1..Len(slept) : slept[n] = 2 ^ (n - 1)

\* C22: after every batch, whether its translation succeeded or was replaced
\* by error entries, translate_subtitles reports progress, and the last value
\* reported by a run that finished is 1.
C22_ProgressAfterEveryBatch ==
    /\ (prog = "bilingual" /\ pc \in { "translating", "done" })
           => Len(progress) = Len(outcomes)
    /\ (TranslationComplete /\ total > 0)
           => /\ progress # << >>
              /\ progress[Len(progress)][1] = progress[Len(progress)][2]

\* The part of C22 that holds: a batch whose translation succeeded is
\* followed by a progress report, and the report after the last batch is 1.
C22_ProgressAfterTranslatedBatch ==
    (prog = "bilingual" /\ pc \in { "translating", "done" }) =>
        /\ Len(progress) = Cardinality({ n \in 1..Len(outcomes) : outcomes[n] # "failed" })
        /\ (TranslationComplete /\ total > 0 /\ outcomes[Len(outcomes)] # "failed")
               => progress[Len(progress)][1] = progress[Len(progress)][2]

\* The blocks of a document that blank lines delimit.
BlocksOf(document) == SplitAtBlankLines(StripLines(document), << >>, << >>)

\* C23: the validator and the parser of one variant accept the same
\* documents: a document the parser turns into records is valid for the
\* validator, and a document the validator accepts is parsed in full, one
\* record for each of its blank-line-delimited blocks (bilingual variant and
\* corrector).
C23_ValidatorAgreesWithParser ==
    /\ (prog = "bilingual" /\ pc # "idle") =>
           LET parsed == parse_srt(content) IN
           /\ ~parsed.raised => validate_srt_format(content)
           /\ validate_srt_format(content) =>
                  /\ ~parsed.raised
                  /\ Len(parsed.value) = Len(BlocksOf(content))
    /\ (prog = "corrector" /\ pc # "idle") =>
           LET parsed == corrector_parse_srt(content) IN
           /\ parsed # << >> => corrector_validate_srt_format(content)
           /\ corrector_validate_srt_format(content) =>
                  Len(parsed) = Len(BlocksOf(content))

\* The blocks of a document that start as a subtitle does: a number line and
\* a timestamp line.
SubtitleBlocks(document) ==
    { n \in 1..Len(BlocksOf(document)) :
        /\ Len(BlocksOf(document)[n]) >= 2
        /\ IsDigits(BlocksOf(document)[n][1])
        /\ IsTimestamp(BlocksOf(document)[n][2]) }

\* C24: when validation succeeds, the subtitle count of the report is the
\* number of subtitle blocks of the validated document.
C24_CountIsNumberOfBlocks ==
    /\ (prog = "bilingual" /\ pc # "idle" /\ validate_srt_format(content)) =>
           subtitle_count(content) = Cardinality(SubtitleBlocks(content))
    /\ (prog = "corrector" /\ pc # "idle"
          /\ corrector_validate_srt_format(content)) =>
           corrector_subtitle_count(content) = Cardinality(SubtitleBlocks(content))

\* Lines a model output may hold besides those of RespLine: an "Original:"
\* line written with indentation, and a blank line.  The line "other" of
\* RespLine is conversational filler.
OutputLine ==
    RespLine \cup { [k |-> " Original", v |-> "a"], [k |-> "blank", v |-> ""] }

Filler == { [k |-> "other", v |-> ""], [k |-> "blank", v |-> ""] }

\* The text with one more line put in front of its line number p + 1.
InsertLine(text, p, line) ==
    SubSeq(text, 1, p) \o << line >> \o SubSeq(text, p + 1, Len(text))

\* C25: _parse_translation ignores every line that does not start with a
\* recognised prefix, so that a filler line or a blank line inserted anywhere
\* in a model output leaves the parsed result as it was; a stanza without the
\* line of a language has the empty string for it and keeps its other fields.
C25_FillerIsIgnored ==
    (BatchRequested /\ attempt = 0) =>
        /\ \A text \in SeqsUpTo(OutputLine, MaxBatchSize) :
             \A p \in 0..Len(text) : \A line \in Filler :
                 _parse_translation(InsertLine(text, p, line))
                     = _parse_translation(text)
        /\ _parse_translation(<< [k |-> "Original", v |-> "a"],
                                 [k |-> target_lang2, v |-> "c"] >>)
               = << Item(<< "a" >>, "", "c") >>

\* The part of C25 that holds: outputs whose lines are not indented.
C25_FillerIsIgnoredWithoutIndentation ==
    (BatchRequested /\ attempt = 0) =>
        /\ \A text \in SeqsUpTo(OutputLine \ { [k |-> " Original", v |-> "a"] },
                                MaxBatchSize) :
             \A p \in 0..Len(text) : \A line \in Filler :
                 _parse_translation(InsertLine(text, p, line))
                     = _parse_translation(text)
        /\ _parse_translation(<< [k |-> "Original", v |-> "a"],
                                 [k |-> target_lang2, v |-> "c"] >>)
               = << Item(<< "a" >>, "", "c") >>

\* C26: in process_srt at most MAX_WORKERS (5) correct_subtitle calls run at
\* the same time, whatever the number of records and the interleaving, and
\* every parsed record is submitted to the pool exactly once: there is one
\* future per record, and a call that has started never starts again.
C26_AtMostFiveAtOnce ==
    /\ [](prog = "corrector" =>
            /\ Cardinality(Running) <= 5
            /\ Len(futures) = Len(subtitles))
    /\ [][\A k \in 1..Len(futures) :
            /\ futures[k].state # "queued" => futures'[k].state # "queued"
            /\ futures[k].state \in { "ok", "failed" }
                   => futures'[k] = futures[k]]_vars

\* Five calls run while a sixth record waits for a worker.
C26_Witness ==
    /\ prog = "corrector"
    /\ Cardinality(Running) = 5
    /\ Queued # {}

\* C27: within one run of batch_translate_subtitles the batch-level request
\* is issued at most once per distinct batch text.  A batch-level request
\* starts only for a text the cache does not hold; when it ends, its response
\* (the error placeholder too) is in the cache; the cache never loses or
\* changes an entry; and a batch whose text is in the cache takes its lines
\* from there and starts no batch-level request.
C27_OncePerBatchText ==
    [][prog = "batch" =>
        LET key == batch_text(Batch(subtitles, i, batch_size)) IN
        /\ (pc = "loop" /\ pc' = "batch_request") => key \notin DOMAIN cache
        /\ (pc = "batch_request" /\ pc' # "batch_request")
               => /\ key \in DOMAIN cache'
                  /\ cache'[key] = translation_lines'
        /\ \A t \in DOMAIN cache : t \in DOMAIN cache' /\ cache'[t] = cache[t]
        /\ (pc = "loop" /\ i < total /\ key \in DOMAIN cache)
               => /\ pc' # "batch_request"
                  /\ translation_lines' = cache[key]
                  /\ calls' = calls]_vars

\* Two one-record batches of equal text: the first request failed three
\* times, and the second record was filled from the cached placeholder
\* without any call.
C27_Witness ==
    /\ prog = "batch"
    /\ batch_size = 1
    /\ calls = 3
    /\ Len(translated_subtitles) = 2
    /\ last_request = Ended(TRUE, "placeholder")
    /\ Cardinality(DOMAIN cache) = 1
    /\ \A t \in DOMAIN cache : cache[t] = FailureReturn

\* C28: the phases of one run of the bilingual pipeline come in the order
\* parse, translate batch 1..N, format and validate, end.  The request for a
\* batch is made only when the results of all batches before it are appended;
\* formatting and validation (the step that fills the session) start only
\* when the last batch is finished; a run whose parse failed makes no request
\* and never translates.
C28_PhasesInOrder ==
    /\ [](prog = "bilingual" =>
            /\ pc = "idle" =>
                   /\ subtitles = << >> /\ translated_subtitles = << >>
                   /\ last_request = NoRequest /\ session = << >>
            /\ pc = "translating" =>
                   /\ subtitles # << >>
                   /\ session = << >> /\ delivered = << >>
                   /\ Len(translated_subtitles) = Min(i, total)
                   /\ Len(outcomes) = BatchCount(Min(i, total), batch_size)
            /\ error = "ValueError" =>
                   /\ pc = "done" /\ session = << >>
                   /\ last_request = NoRequest /\ attempt = 0
                   /\ translated_subtitles = << >> /\ outcomes = << >>
            /\ session # << >> =>
                   /\ pc = "done"
                   /\ Len(session[1]) = total
                   /\ Len(outcomes) = BatchCount(total, batch_size))
    /\ [][prog = "bilingual" =>
            /\ pc' # pc => << pc, pc' >> \in { << "idle", "translating" >>,
                                               << "idle", "done" >>,
                                               << "translating", "done" >> }
            /\ i' >= i
            /\ Len(outcomes') >= Len(outcomes)]_vars

\* A run of two batches that went through every phase.
C28_Witness ==
    /\ TranslationComplete
    /\ Len(outcomes) = 2
    /\ delivered # << >>

\* C29: a run of batch_translate_subtitles over n records in B batches, in
\* which every remote call returns or raises, ends, and makes at most
\* 3 * (B + n) attempts of a remote call.
C29_TerminatesWithinAttempts ==
    /\ [](prog = "batch" =>
            calls <= 3 * (BatchCount(total, batch_size) + total))
    /\ <>(prog = "batch" => pc = "done")

\* A finished run of one batch of two records in which the batch request
\* and the second record's own request took three attempts each.
C29_Witness ==
    /\ prog = "batch"
    /\ pc = "done"
    /\ batch_size = 2
    /\ total = 2
    /\ calls = 6

\* The lists the edit form can hand over: the corrector's changes, each with
\* its corrected text kept or retyped.
EditedChanges ==
    { [n \in 1..Len(changes) |->
          << changes[n][1], changes[n][2],
             IF n \in retyped THEN << "w" >> ELSE changes[n][3] >>] :
      retyped \in SUBSET (1..Len(changes)) }

InitCommon ==
    /\ pc = "idle"
    /\ subtitles = << >>
    /\ i = 0
    /\ attempt = 0
    /\ translated_subtitles = << >>
    /\ session = << >>
    /\ progress = << >>
    /\ error = "none"
    /\ origin = << >>
    /\ outcomes = << >>
    /\ last_request = NoRequest
    /\ delivered = << >>
    /\ j = 0
    /\ translation_lines = << >>
    /\ cache = << >>
    /\ text_chunks = << >>
    /\ translated_text = << >>
    /\ futures = << >>
    /\ completed = { }
    /\ changes = << >>
    /\ slept = << >>
    /\ calls = 0

InitBilingual ==
    /\ prog = "bilingual"
    /\ content \in Docs({ TRUE })
    /\ batch_size \in 1..MaxBatchSize

\* The same documents, ending with a newline as files do.
InitBatch ==
    /\ prog = "batch"
    /\ content \in { d \o << Blank >> : d \in Docs(BOOLEAN) }
    /\ batch_size \in 1..MaxBatchSize

\* Every short text over a letter and the newline, and documents of cues;
\* the limit is small, or the default of split_text_into_chunks.
StructuredCue == << "1", NL, "T", NL, "x" >>
StructuredDocs ==
    SeqsUpTo({ "x", NL }, MaxTextLen)
    \cup { Join([k \in 1..n |-> StructuredCue], << NL, NL >>) \o << NL >> :
             n \in 1..MaxRecords }

InitStructured ==
    /\ prog = "structured"
    /\ content \in StructuredDocs
    /\ batch_size \in 1..MaxChunkSize \cup { default_max_chunk_size }

\* Documents whose last cue has its blank line, or lacks it.
InitCorrector ==
    /\ prog = "corrector"
    /\ content \in { d \o e : d \in Docs(BOOLEAN),
                               e \in { << Blank >>, << Blank, Blank >> } }
    /\ batch_size = 0

\* Documents of more records than the pool has workers.  Every cue holds
\* the text the model answers with, so that each call has one answer.
PoolCue == << "1", "T1", "z" >>

PoolInit ==
    /\ InitCommon
    /\ prog = "corrector"
    /\ content \in { JoinBlocks([k \in 1..n |-> PoolCue]) \o << Blank, Blank >> :
                         n \in 1..MaxPoolRecords }
    /\ batch_size = 0

Init ==
    InitCommon /\ (InitBilingual \/ InitBatch \/ InitStructured \/ InitCorrector)

Next ==
    \/ StartTranslation
    \/ TranslateBatchRetry
    \/ TranslateBatchGivesUp
    \/ TranslateBatchReturns
    \/ FinishTranslation
    \/ BatchStart
    \/ BatchLoop
    \/ TranslateSubtitleRetry
    \/ TranslateSubtitleGivesUp
    \/ TranslateSubtitleReturns
    \/ BatchFinish
    \/ StructuredStart
    \/ ChunkRequestRaises
    \/ ChunkAttemptFails
    \/ ChunkReturns
    \/ StructuredFinish
    \/ CorrectorStart
    \/ WorkerStarts
    \/ CorrectSubtitleReturns
    \/ CorrectSubtitleRaises
    \/ TakeCompleted
    \/ CorrectorFinish

Spec == Init /\ [][Next]_vars

\* The corrector alone, on the documents of PoolInit.
PoolNext ==
    \/ CorrectorStart
    \/ WorkerStarts
    \/ CorrectSubtitleReturns
    \/ CorrectSubtitleRaises
    \/ TakeCompleted
    \/ CorrectorFinish

PoolSpec == PoolInit /\ [][PoolNext]_vars

\* The batch variant alone.  Every remote call returns or raises and the
\* code between two calls runs on, so a step that can be taken is taken.
BatchNext ==
    \/ BatchStart
    \/ BatchLoop
    \/ TranslateSubtitleRetry
    \/ TranslateSubtitleGivesUp
    \/ TranslateSubtitleReturns
    \/ BatchFinish

BatchInit == InitCommon /\ InitBatch

BatchSpec == BatchInit /\ [][BatchNext]_vars /\ WF_vars(BatchNext)

====
